---- MODULE Spec2Model ----
(***************************************************************************)
(* State-machine model of SW/RangeFinderServo/rf_motor.c (MSP430F2012).    *)
(*                                                                         *)
(* Two interrupt handlers (Timer_A, Port1_isr) run atomically; the         *)
(* foreground loop of main() is interruptible between any two statements,  *)
(* so it advances one statement per step (variable pc).  The RF input line *)
(* and the push button are the environment.                                *)
(*                                                                         *)
(* The timing constants of the source are far too large to enumerate       *)
(* (PWM1_MAXSTEP 2000, SPEED 3000, COUNTHIGH 625, ...).  They keep their   *)
(* names and their order relations (POSIT_END < POSIT_START, COUNTLOW <    *)
(* COUNTHIGH, VALIDATE_RF = WAITEND_RF < PRESCALER <= IGNORE_RF, ...) but   *)
(* carry reduced values; the source                                        *)
(* value is given beside each.  State codes keep the source's values.      *)
(***************************************************************************)
EXTENDS Integers, FiniteSets, Sequences, TLC

(* ---- timing and position constants, reduced (source value in comment) -- *)
PWM1_MAXSTEP == 4
    \* rf_motor.c:59   #define PWM1_MAXSTEP 2000
PWMINITIALVALUE == 3
    \* rf_motor.c:60   #define PWMINITIALVALUE 161
POSIT_START == 3
    \* rf_motor.c:61   #define POSIT_START 161
POSIT_END == 1
    \* rf_motor.c:62   #define POSIT_END 78
SPEED == 2
    \* rf_motor.c:63   #define SPEED 3000
COUNTHIGH == 3
    \* rf_motor.c:65   #define COUNTHIGH 625
COUNTLOW == 2
    \* rf_motor.c:66   #define COUNTLOW 624
COUNTOLER == 1
    \* rf_motor.c:67   #define COUNTOLER 10
VALIDATE_RF == 1
    \* rf_motor.c:69   #define VALIDATE_RF 10
WAITEND_RF == 1
    \* rf_motor.c:70   #define WAITEND_RF 10
IGNORE_RF == 2
    \* rf_motor.c:71   #define IGNORE_RF 1000
PRESCALER == 2
    \* rf_motor.c:73   #define PRESCALER 100

(* ---- state codes, as in the source ------------------------------------ *)
POSIT == 0
MOVINGUP == 1
MOVINGDOWN == 2
WAITINGUP == 3
WAITINGDOWN == 4

IDLE == 0
DETHIGH == 1
DETLOW == 2
DETEND == 3

VALIDATE == 1
WAITDETEND == 2
IGNORE == 3

(* ---- pwmtest2.c: its own period, initial value, endpoints, state codes - *)
(* (SPEED is defined there with the same value).  The order of the source  *)
(* is kept: 0 < PWMINITIALVALUE < POSIT1, POSIT1 + 1 < POSIT2, POSIT2 <    *)
(* 220 < PWM1_MAXSTEP.                                                     *)
T2_PWM1_MAXSTEP == 6
    \* pwmtest2.c:46   #define PWM1_MAXSTEP 2000
T2_PWMINITIALVALUE == 1
    \* pwmtest2.c:47   #define PWMINITIALVALUE 36
T2_POSIT1 == 2
    \* pwmtest2.c:48   #define POSIT1 78
T2_POSIT2 == 4
    \* pwmtest2.c:49   #define POSIT2 161
T2_SERVOMIN == 1
    \* pwmtest2.c:258  if(Pwm1_dc >= 36 ...
T2_SERVOMAX == 5
    \* pwmtest2.c:258  ... && Pwm1_dc <= 220)

T2_RESET == 0
T2_POSIT == 1
T2_POSITOLD == 2
T2_MOVINGUP == 3
T2_MOVINGDOWN == 4
T2_WAITINGUP == 5
T2_WAITINGDOWN == 6
T2_INCREASE == 7
T2_DECREASE == 8

(* unsigned short arithmetic wraps modulo 2^16 *)
USHORT == 65536

(* ---- bounds on the environment ---------------------------------------- *)
(* rising edges of the RF line, and button presses, in one behaviour of a  *)
(* specification that budgets them                                         *)
MaxRises == 2
MaxPresses == 1

(* the largest value tried for a state variable that holds none of its     *)
(* state codes                                                             *)
MaxCode == 5

VARIABLES
    (* globals of rf_motor.c *)
    Pwm1_reach, Pwm1_dc, Pwm1_cn, Pwm1_State, Pwm1_delay,
    RfDetState, RfDetCounter, RfDetected, RfDetConfirmSt,
    RfPrescaler, RfLongDelay, RfShortDelay, Command,
    (* port bits *)
    P1OUT_LED,      \* P1.0 debug LED
    P1OUT_PWM1,     \* P1.2 PWM output
    P1IN_RF,        \* P1.6 level of the RF receiver line
    P1IE_RF,        \* P1.6 edge interrupt enable
    P1IFG_RF,       \* P1.6 edge interrupt flag
    (* position of the foreground loop *)
    pc,
    (* history variables: they record what happened, the program never reads them *)
    pwmTicks,       \* Timer_A ticks since Pwm1_cn was last reset; -1 before the first reset
    pwmPeriod,      \* ticks from one reset of Pwm1_cn to the next, last measured; 0: none yet
    dcAtTrigger,    \* Pwm1_dc when the last trigger was taken in POSIT
    dcChanges,      \* changes of Pwm1_dc since the last trigger was taken
    sinceChange,    \* ticks since the last change of Pwm1_dc in this motion; -1: none yet
    motions,        \* completed motions, modulo 2
    lateTrigger,    \* the trigger that arrived during the motion last started, if any
    rfPhase,        \* readings of the RF line since Port1_isr armed DETHIGH
    rfHi,           \* length of the first run of HIGH readings
    rfLo,           \* length of the run of LOW readings that followed
    detTicks,       \* ticks for which RfDetected has been TRUE in this interval, or was in
                    \* the last one while VALIDATE is still to judge it; 0 otherwise
    cmdSets,        \* assignments Command = TRUE since RfDetConfirmSt last left IDLE
    ignTicks,       \* ticks since RfLongDelay was loaded for IGNORE; -1: not in IGNORE
    absTicks,       \* ticks since RfDetected became FALSE, counted while RfDetConfirmSt
                    \* is VALIDATE or WAITDETEND; 0 while it is TRUE, and elsewhere
    preTicks,       \* ticks since RfPrescaler last expired; -1 before the first expiry
    prePeriod,      \* ticks from one expiry of RfPrescaler to the next, last measured;
                    \* 0: none yet
    ldTicks,        \* ticks since the loop loaded RfLongDelay with VALIDATE_RF or
                    \* WAITEND_RF; -1: no such countdown is running
    latched,        \* a tick has set RfDetected TRUE and every tick since has found
                    \* the RF line LOW
    pwmHigh,        \* ticks of the current PWM period on which P1.2 was driven HIGH,
                    \* while Pwm1_dc has not changed within the period; -1 otherwise
    rises,          \* rising edges of the RF line so far
    presses,        \* button presses reported so far, where they are budgeted
    prog            \* the program that runs: "rf_motor" or "pwmtest2"

progVars == <<Pwm1_reach, Pwm1_dc, Pwm1_cn, Pwm1_State, Pwm1_delay,
              RfDetState, RfDetCounter, RfDetected, RfDetConfirmSt,
              RfPrescaler, RfLongDelay, RfShortDelay, Command>>
portVars == <<P1OUT_LED, P1OUT_PWM1, P1IN_RF, P1IE_RF, P1IFG_RF>>
histVars == <<pwmTicks, pwmPeriod, dcAtTrigger, dcChanges, sinceChange, motions,
              lateTrigger, rfPhase, rfHi, rfLo, detTicks, cmdSets, ignTicks,
              absTicks, preTicks, prePeriod, ldTicks, latched, pwmHigh>>
envVars == <<rises, presses>>
vars == <<progVars, portVars, pc, histVars, envVars, prog>>

(* ======================= Init (rf_motor.c:341-402) ===================== *)
(* The state Init() leaves, with the duty cycle at d.                      *)
InitAt(d) ==
    /\ Pwm1_cn = 0
    /\ Pwm1_dc = d
    /\ Pwm1_reach = PWMINITIALVALUE
    /\ Pwm1_State = POSIT
    /\ Pwm1_delay = 0
    /\ RfDetState = IDLE
    /\ RfDetCounter = 0
    /\ RfDetConfirmSt = IDLE
    /\ RfDetected = FALSE
    /\ RfPrescaler = PRESCALER
    /\ RfShortDelay = 0
    /\ RfLongDelay = 0
    /\ Command = FALSE
    /\ P1OUT_LED = FALSE
    /\ P1OUT_PWM1 = FALSE
    /\ P1IN_RF = FALSE
    /\ P1IE_RF = TRUE
    /\ P1IFG_RF = FALSE
    /\ pc = "confirm"
    /\ pwmTicks = -1
    /\ pwmPeriod = 0
    /\ dcAtTrigger = d
    /\ dcChanges = 0
    /\ sinceChange = -1
    /\ motions = 0
    /\ lateTrigger = "none"
    /\ rfPhase = "none"
    /\ rfHi = 0
    /\ rfLo = 0
    /\ detTicks = 0
    /\ cmdSets = 0
    /\ ignTicks = -1
    /\ absTicks = 0
    /\ preTicks = -1
    /\ prePeriod = 0
    /\ ldTicks = -1
    /\ latched = FALSE
    /\ pwmHigh = 0
    /\ rises = 0
    /\ presses = 0
    /\ prog = "rf_motor"

Init ==
    InitAt(PWMINITIALVALUE)

(* ================= Timer_A (rf_motor.c:460-606) ======================== *)

(* The RF envelope qualifier, one tick: the switch on RfDetState.  q holds *)
(* RfDetState (st), RfDetCounter (cnt), RfDetected (det) and the P1.6      *)
(* interrupt enable (ie); line is the level read from P1IN bit 6.          *)
(* Variant of HighEnough: the tolerance one reading too wide *)
HighEnough_wide(cnt) ==
    cnt >= COUNTHIGH - COUNTOLER - 1

(* Variant of LowEnough: no tolerance *)
LowEnough_strict(cnt) ==
    cnt >= COUNTLOW

(* Variant of HighEnough: no tolerance *)
HighEnough_strict(cnt) ==
    cnt >= COUNTHIGH

(* The tolerance tests of DETHIGH and DETLOW.  rf_motor.c:497, 530         *)
HighEnough(cnt) ==
    cnt >= COUNTHIGH - COUNTOLER

LowEnough(cnt) ==
    cnt >= COUNTLOW - COUNTOLER

(* Variant of RfDetStep: the tolerated early LOW in DETHIGH keeps the count *)
RfDetStep_keepcnt(q, line) ==
    CASE q.st = DETHIGH ->
           IF line
           THEN IF q.cnt < COUNTHIGH
                THEN [q EXCEPT !.cnt = q.cnt + 1]
                ELSE [q EXCEPT !.st = DETLOW, !.cnt = 0]
           ELSE IF HighEnough(q.cnt)
                THEN [q EXCEPT !.st = DETLOW]
                ELSE [q EXCEPT !.st = DETEND, !.det = FALSE]
      [] q.st = DETLOW ->
           IF ~line
           THEN IF q.cnt < COUNTLOW
                THEN [q EXCEPT !.cnt = q.cnt + 1]
                ELSE [q EXCEPT !.st = DETEND, !.cnt = 0, !.det = TRUE]
           ELSE IF LowEnough(q.cnt)
                THEN [q EXCEPT !.st = DETEND, !.cnt = 0, !.det = TRUE]
                ELSE [q EXCEPT !.st = DETEND, !.det = FALSE]
      [] q.st = DETEND ->
           IF line
           THEN [q EXCEPT !.st = IDLE, !.ie = TRUE]
           ELSE q
      [] OTHER -> q

(* Variant of RfDetStep: leaving DETEND clears RfDetected                  *)
RfDetStep_clear(q, line) ==
    CASE q.st = DETHIGH ->
           IF line
           THEN IF q.cnt < COUNTHIGH
                THEN [q EXCEPT !.cnt = q.cnt + 1]
                ELSE [q EXCEPT !.st = DETLOW, !.cnt = 0]
           ELSE IF HighEnough(q.cnt)
                THEN [q EXCEPT !.st = DETLOW, !.cnt = 0]
                ELSE [q EXCEPT !.st = DETEND, !.det = FALSE]
      [] q.st = DETLOW ->
           IF ~line
           THEN IF q.cnt < COUNTLOW
                THEN [q EXCEPT !.cnt = q.cnt + 1]
                ELSE [q EXCEPT !.st = DETEND, !.cnt = 0, !.det = TRUE]
           ELSE IF LowEnough(q.cnt)
                THEN [q EXCEPT !.st = DETEND, !.cnt = 0, !.det = TRUE]
                ELSE [q EXCEPT !.st = DETEND, !.det = FALSE]
      [] q.st = DETEND ->
           IF line
           THEN [q EXCEPT !.st = IDLE, !.ie = TRUE, !.det = FALSE]
           ELSE q
      [] OTHER -> q

RfDetStep(q, line) ==
    CASE q.st = DETHIGH ->
           IF line
           THEN IF q.cnt < COUNTHIGH
                THEN [q EXCEPT !.cnt = q.cnt + 1]
                ELSE [q EXCEPT !.st = DETLOW, !.cnt = 0]
           ELSE IF HighEnough(q.cnt)
                THEN [q EXCEPT !.st = DETLOW, !.cnt = 0]
                ELSE [q EXCEPT !.st = DETEND, !.det = FALSE]
      [] q.st = DETLOW ->
           IF ~line
           THEN IF q.cnt < COUNTLOW
                THEN [q EXCEPT !.cnt = q.cnt + 1]
                ELSE [q EXCEPT !.st = DETEND, !.cnt = 0, !.det = TRUE]
           ELSE IF LowEnough(q.cnt)
                THEN [q EXCEPT !.st = DETEND, !.cnt = 0, !.det = TRUE]
                ELSE [q EXCEPT !.st = DETEND, !.det = FALSE]
      [] q.st = DETEND ->
           IF line
           THEN [q EXCEPT !.st = IDLE, !.ie = TRUE]
           ELSE q
      [] OTHER -> q

(* if(Pwm1_State == POSIT) switch(RfDetState) ... *)
RfDetTick(state, q, line) ==
    IF state = POSIT THEN RfDetStep(q, line) ELSE q

(* if(x) x--;  used for Pwm1_delay and RfShortDelay *)
CountDown(x) ==
    IF x # 0 THEN x - 1 ELSE x

(* Variant of LongDelayTick: the long delay decremented on every tick      *)
LongDelayTick_noprescale(pre, long) ==
    IF pre # 0
    THEN <<pre - 1, IF long # 0 THEN long - 1 ELSE long>>
    ELSE <<PRESCALER, IF long # 0 THEN long - 1 ELSE long>>

(* The prescaler and the long delay: <<RfPrescaler, RfLongDelay>> after a tick *)
LongDelayTick(pre, long) ==
    IF pre # 0
    THEN <<pre - 1, long>>
    ELSE <<PRESCALER, IF long # 0 THEN long - 1 ELSE long>>

(* PWM 1 management: the counter after a tick *)
PwmCount(cn) ==
    IF cn < PWM1_MAXSTEP THEN cn + 1 ELSE 0

(* Variant of PwmLevel: the comparison written < instead of <= *)
PwmLevel_lt(cn, dc) ==
    IF cn < PWM1_MAXSTEP THEN (cn + 1 < dc) ELSE FALSE

(* Variant of PwmLevel: the counter compared before it is incremented *)
PwmLevel_preinc(cn, dc) ==
    IF cn < PWM1_MAXSTEP THEN (cn <= dc) ELSE FALSE

(* PWM 1 management: the level written to P1.2 by a tick *)
PwmLevel(cn, dc) ==
    IF cn < PWM1_MAXSTEP THEN (cn + 1 <= dc) ELSE FALSE

(* What a tick adds to the record of RF line readings *)
RfHistTick ==
    IF rfPhase \in {"hi", "lo"}
    THEN IF Pwm1_State # POSIT
         THEN <<"void", 0, 0>>
         ELSE IF rfPhase = "hi"
              THEN IF P1IN_RF
                   THEN <<"hi", IF rfHi <= COUNTHIGH THEN rfHi + 1 ELSE rfHi, 0>>
                   ELSE <<"lo", rfHi, 1>>
              ELSE IF P1IN_RF
                   THEN <<"done", rfHi, rfLo>>
                   ELSE <<"lo", rfHi, IF rfLo <= COUNTLOW THEN rfLo + 1 ELSE rfLo>>
    ELSE <<"none", 0, 0>>

Timer_A ==
    LET q == RfDetTick(Pwm1_State,
                       [st |-> RfDetState, cnt |-> RfDetCounter,
                        det |-> RfDetected, ie |-> P1IE_RF],
                       P1IN_RF)
        ld == LongDelayTick(RfPrescaler, RfLongDelay)
        h  == RfHistTick
    IN  /\ RfDetState' = q.st
        /\ RfDetCounter' = q.cnt
        /\ RfDetected' = q.det
        /\ P1IE_RF' = q.ie
        /\ Pwm1_delay' = CountDown(Pwm1_delay)
        /\ RfShortDelay' = CountDown(RfShortDelay)
        /\ RfPrescaler' = ld[1]
        /\ RfLongDelay' = ld[2]
        /\ Pwm1_cn' = PwmCount(Pwm1_cn)
        /\ P1OUT_PWM1' = PwmLevel(Pwm1_cn, Pwm1_dc)
        /\ pwmTicks' = IF PwmCount(Pwm1_cn) = 0 THEN 0
                       ELSE IF pwmTicks >= 0 THEN pwmTicks + 1 ELSE pwmTicks
        /\ pwmPeriod' = IF PwmCount(Pwm1_cn) = 0 /\ pwmTicks >= 0
                        THEN pwmTicks + 1 ELSE pwmPeriod
        /\ sinceChange' = IF sinceChange >= 0 /\ sinceChange < SPEED
                          THEN sinceChange + 1 ELSE sinceChange
        /\ rfPhase' = h[1]
        /\ rfHi' = h[2]
        /\ rfLo' = h[3]
        /\ detTicks' = IF q.det
                       THEN IF ~RfDetected THEN 0
                            ELSE IF detTicks < VALIDATE_RF * PRESCALER
                                 THEN detTicks + 1 ELSE detTicks
                       ELSE IF RfDetConfirmSt # VALIDATE THEN 0
                            ELSE IF RfDetected /\ detTicks < VALIDATE_RF * PRESCALER
                                 THEN detTicks + 1 ELSE detTicks
        /\ ignTicks' = IF ignTicks >= 0 /\ ignTicks < IGNORE_RF * PRESCALER
                       THEN ignTicks + 1 ELSE ignTicks
        /\ absTicks' = IF q.det \/ RfDetected
                          \/ RfDetConfirmSt \notin {VALIDATE, WAITDETEND}
                       THEN 0
                       ELSE IF absTicks < WAITEND_RF * PRESCALER
                            THEN absTicks + 1 ELSE absTicks
        /\ preTicks' = IF RfPrescaler = 0 THEN 0
                       ELSE IF preTicks >= 0 THEN preTicks + 1 ELSE preTicks
        /\ prePeriod' = IF RfPrescaler = 0 /\ preTicks >= 0
                        THEN preTicks + 1 ELSE prePeriod
        /\ ldTicks' = IF ldTicks >= 0 /\ ldTicks < VALIDATE_RF * PRESCALER
                      THEN ldTicks + 1 ELSE ldTicks
        /\ latched' = IF q.st = DETEND /\ RfDetState # DETEND /\ q.det THEN TRUE
                      ELSE IF P1IN_RF THEN FALSE ELSE latched
        /\ pwmHigh' = IF PwmCount(Pwm1_cn) = 0 THEN 0
                      ELSE IF pwmHigh < 0 THEN pwmHigh
                      ELSE IF P1OUT_PWM1' THEN pwmHigh + 1
                      ELSE pwmHigh
        /\ UNCHANGED <<Pwm1_reach, Pwm1_dc, Pwm1_State, RfDetConfirmSt, Command,
                       P1OUT_LED, P1IN_RF, P1IFG_RF, pc,
                       dcAtTrigger, dcChanges, motions, lateTrigger, cmdSets, envVars,
                       prog>>

(* Variant of Port1_isr: the handler also sets Command                     *)
Port1_isr_cmd ==
    /\ P1IFG_RF /\ P1IE_RF
    /\ IF P1IN_RF
       THEN /\ RfDetState' = DETHIGH
            /\ RfDetCounter' = 0
            /\ P1IE_RF' = FALSE
            /\ rfPhase' = "hi"
            /\ rfHi' = 0
            /\ rfLo' = 0
       ELSE UNCHANGED <<RfDetState, RfDetCounter, P1IE_RF, rfPhase, rfHi, rfLo>>
    /\ P1IFG_RF' = FALSE
    /\ Command' = TRUE
    /\ UNCHANGED <<Pwm1_reach, Pwm1_dc, Pwm1_cn, Pwm1_State, Pwm1_delay,
                   RfDetected, RfDetConfirmSt, RfPrescaler, RfLongDelay,
                   RfShortDelay, P1OUT_LED, P1OUT_PWM1, P1IN_RF, pc,
                   pwmTicks, pwmPeriod, dcAtTrigger, dcChanges, sinceChange,
                   motions, lateTrigger, detTicks, cmdSets, ignTicks, absTicks,
                   preTicks, prePeriod, ldTicks, latched, pwmHigh, envVars, prog>>

(* ================ Port1_isr (rf_motor.c:618-635) ======================= *)
(* Variant of Port1_isr: DETHIGH armed with the interrupt left enabled     *)
Port1_isr_keepie ==
    /\ P1IFG_RF /\ P1IE_RF
    /\ IF P1IN_RF
       THEN /\ RfDetState' = DETHIGH
            /\ RfDetCounter' = 0
            /\ P1IE_RF' = P1IE_RF
            /\ rfPhase' = "hi"
            /\ rfHi' = 0
            /\ rfLo' = 0
       ELSE UNCHANGED <<RfDetState, RfDetCounter, P1IE_RF, rfPhase, rfHi, rfLo>>
    /\ P1IFG_RF' = FALSE
    /\ UNCHANGED <<Pwm1_reach, Pwm1_dc, Pwm1_cn, Pwm1_State, Pwm1_delay,
                   RfDetected, RfDetConfirmSt, RfPrescaler, RfLongDelay,
                   RfShortDelay, Command, P1OUT_LED, P1OUT_PWM1, P1IN_RF, pc,
                   pwmTicks, pwmPeriod, dcAtTrigger, dcChanges, sinceChange,
                   motions, lateTrigger, detTicks, cmdSets, ignTicks, absTicks,
                   preTicks, prePeriod, ldTicks, latched, pwmHigh, envVars, prog>>

(* Requested while the P1.6 flag is set and the P1.6 interrupt is enabled. *)
Port1_isr ==
    /\ P1IFG_RF /\ P1IE_RF
    /\ IF P1IN_RF
       THEN /\ RfDetState' = DETHIGH
            /\ RfDetCounter' = 0
            /\ P1IE_RF' = FALSE
            /\ rfPhase' = "hi"
            /\ rfHi' = 0
            /\ rfLo' = 0
       ELSE UNCHANGED <<RfDetState, RfDetCounter, P1IE_RF, rfPhase, rfHi, rfLo>>
    /\ P1IFG_RF' = FALSE
    /\ UNCHANGED <<Pwm1_reach, Pwm1_dc, Pwm1_cn, Pwm1_State, Pwm1_delay,
                   RfDetected, RfDetConfirmSt, RfPrescaler, RfLongDelay,
                   RfShortDelay, Command, P1OUT_LED, P1OUT_PWM1, P1IN_RF, pc,
                   pwmTicks, pwmPeriod, dcAtTrigger, dcChanges, sinceChange,
                   motions, lateTrigger, detTicks, cmdSets, ignTicks, absTicks,
                   preTicks, prePeriod, ldTicks, latched, pwmHigh, envVars, prog>>

(* ================= the RF line (environment) =========================== *)
(* A low-to-high transition of P1.6 sets the interrupt flag (P1IES bit 6   *)
(* clear, rf_motor.c:371), whether or not the interrupt is enabled.        *)
RfRise ==
    /\ ~P1IN_RF
    /\ rises < MaxRises
    /\ rises' = rises + 1
    /\ P1IN_RF' = TRUE
    /\ P1IFG_RF' = TRUE
    /\ UNCHANGED <<progVars, P1OUT_LED, P1OUT_PWM1, P1IE_RF, pc, histVars, presses,
                   prog>>

RfFall ==
    /\ P1IN_RF
    /\ P1IN_RF' = FALSE
    /\ UNCHANGED <<progVars, P1OUT_LED, P1OUT_PWM1, P1IE_RF, P1IFG_RF, pc, histVars,
                   envVars, prog>>

(* As RfRise, with one rising edge more in the budget.                     *)
RfRiseMore ==
    /\ ~P1IN_RF
    /\ rises < MaxRises + 1
    /\ rises' = rises + 1
    /\ P1IN_RF' = TRUE
    /\ P1IFG_RF' = TRUE
    /\ UNCHANGED <<progVars, P1OUT_LED, P1OUT_PWM1, P1IE_RF, pc, histVars, presses,
                   prog>>


(* ================== main (rf_motor.c:149-332) ========================== *)
(* The foreground loop, one statement per step.  m holds what the loop     *)
(* writes: reach, dc, st (Pwm1_State), delay, conf (RfDetConfirmSt), long  *)
(* (RfLongDelay), short (RfShortDelay), cmd (Command), led and pc.         *)

Moving == {MOVINGUP, MOVINGDOWN, WAITINGUP, WAITINGDOWN}

(* Variant of ConfirmBranch: case IGNORE handled as case WAITDETEND        *)
ConfirmBranch_nocooldown(m, det) ==
    CASE m.conf = IDLE ->
           IF det /\ m.st = POSIT THEN "idle_long" ELSE "trigger"
      [] m.conf = VALIDATE ->
           IF det THEN "val_chk" ELSE "val_idle"
      [] m.conf = WAITDETEND ->
           IF ~det THEN "wde_chk" ELSE "wde_reload"
      [] m.conf = IGNORE ->
           IF ~det THEN "wde_chk" ELSE "wde_reload"
      [] OTHER -> "def_short"

(* Variant of ConfirmBranch: case VALIDATE without the test of RfDetected   *)
ConfirmBranch_novaldet(m, det) ==
    CASE m.conf = IDLE ->
           IF det /\ m.st = POSIT THEN "idle_long" ELSE "trigger"
      [] m.conf = VALIDATE -> "val_chk"
      [] m.conf = WAITDETEND ->
           IF ~det THEN "wde_chk" ELSE "wde_reload"
      [] m.conf = IGNORE ->
           IF m.long = 0 THEN "ign_conf" ELSE "trigger"
      [] OTHER -> "def_short"

(* Variant of ConfirmBranch: case WAITDETEND tests RfLongDelay at once and  *)
(* goes on without LED_OFF                                                 *)
ConfirmBranch_noledoff(m, det) ==
    CASE m.conf = IDLE ->
           IF det /\ m.st = POSIT THEN "idle_long" ELSE "trigger"
      [] m.conf = VALIDATE ->
           IF det THEN "val_chk" ELSE "val_idle"
      [] m.conf = WAITDETEND ->
           IF ~det THEN (IF m.long = 0 THEN "wde_cmd" ELSE "trigger")
           ELSE "wde_reload"
      [] m.conf = IGNORE ->
           IF m.long = 0 THEN "ign_conf" ELSE "trigger"
      [] OTHER -> "def_short"

(* Variant of ConfirmBranch: no default branch                             *)
ConfirmBranch_nodefault(m, det) ==
    CASE m.conf = IDLE ->
           IF det /\ m.st = POSIT THEN "idle_long" ELSE "trigger"
      [] m.conf = VALIDATE ->
           IF det THEN "val_chk" ELSE "val_idle"
      [] m.conf = WAITDETEND ->
           IF ~det THEN "wde_chk" ELSE "wde_reload"
      [] m.conf = IGNORE ->
           IF m.long = 0 THEN "ign_conf" ELSE "trigger"
      [] OTHER -> "trigger"

(* Variant of ConfirmBranch: case WAITDETEND with the test of RfDetected    *)
(* inverted                                                                *)
ConfirmBranch_waitinv(m, det) ==
    CASE m.conf = IDLE ->
           IF det /\ m.st = POSIT THEN "idle_long" ELSE "trigger"
      [] m.conf = VALIDATE ->
           IF det THEN "val_chk" ELSE "val_idle"
      [] m.conf = WAITDETEND ->
           IF det THEN "wde_chk" ELSE "wde_reload"
      [] m.conf = IGNORE ->
           IF m.long = 0 THEN "ign_conf" ELSE "trigger"
      [] OTHER -> "def_short"

(* switch(RfDetConfirmSt) and the first condition of the case entered;     *)
(* det is RfDetected as read by that condition.  rf_motor.c:170-231        *)
ConfirmBranch(m, det) ==
    CASE m.conf = IDLE ->
           IF det /\ m.st = POSIT THEN "idle_long" ELSE "trigger"
      [] m.conf = VALIDATE ->
           IF det THEN "val_chk" ELSE "val_idle"
      [] m.conf = WAITDETEND ->
           IF ~det THEN "wde_chk" ELSE "wde_reload"
      [] m.conf = IGNORE ->
           IF m.long = 0 THEN "ign_conf" ELSE "trigger"
      [] OTHER -> "def_short"

(* Variant of Triggered: Command left out of the condition                 *)
Triggered_nocmd(m, b) ==
    b \/ m.st \in Moving

(* The condition that admits the positioning switch; b is what             *)
(* testButton(S2_BUTTON) returned.  rf_motor.c:243-248                     *)
Triggered(m, b) ==
    b \/ m.cmd = TRUE \/ m.st \in Moving

(* Variant of PositBranch: a finished motion goes to POSIT without first   *)
(* resetting Command                                                       *)
PositBranch_keepcmd(m) ==
    CASE m.st = MOVINGUP ->
           IF m.dc = m.reach THEN "up_posit" ELSE "up_st"
      [] m.st = MOVINGDOWN ->
           IF m.dc = m.reach THEN "down_posit" ELSE "down_st"
      [] m.st = WAITINGUP ->
           IF m.delay = 0 THEN "wup_st" ELSE "confirm"
      [] m.st = WAITINGDOWN ->
           IF m.delay = 0 THEN "wdown_st" ELSE "confirm"
      [] OTHER -> "pos_cmd"

(* Variant of PositBranch: the Waiting states do not test Pwm1_delay       *)
PositBranch_nowait(m) ==
    CASE m.st = MOVINGUP ->
           IF m.dc = m.reach THEN "up_cmd" ELSE "up_st"
      [] m.st = MOVINGDOWN ->
           IF m.dc = m.reach THEN "down_cmd" ELSE "down_st"
      [] m.st = WAITINGUP -> "wup_st"
      [] m.st = WAITINGDOWN -> "wdown_st"
      [] OTHER -> "pos_cmd"

(* switch(Pwm1_State) and the condition of the case entered.               *)
(* rf_motor.c:253-329                                                      *)
PositBranch(m) ==
    CASE m.st = MOVINGUP ->
           IF m.dc = m.reach THEN "up_cmd" ELSE "up_st"
      [] m.st = MOVINGDOWN ->
           IF m.dc = m.reach THEN "down_cmd" ELSE "down_st"
      [] m.st = WAITINGUP ->
           IF m.delay = 0 THEN "wup_st" ELSE "confirm"
      [] m.st = WAITINGDOWN ->
           IF m.delay = 0 THEN "wdown_st" ELSE "confirm"
      [] OTHER -> "pos_cmd"

(* Variant of ReachFor: below POSIT_START the goal is POSIT_END *)
ReachFor_below(dc, reach) ==
    IF dc = POSIT_START THEN POSIT_END
    ELSE IF dc < POSIT_START THEN POSIT_END
    ELSE IF dc > POSIT_START
         THEN IF dc = POSIT_END THEN POSIT_START
              ELSE IF dc > POSIT_END THEN POSIT_END
              ELSE IF dc < POSIT_END THEN POSIT_END
              ELSE reach
    ELSE reach

(* The goal of a motion started at duty cycle dc; reach is kept where no   *)
(* branch assigns it.  rf_motor.c:262-284                                  *)
ReachFor(dc, reach) ==
    IF dc = POSIT_START THEN POSIT_END
    ELSE IF dc < POSIT_START THEN POSIT_START
    ELSE IF dc > POSIT_START
         THEN IF dc = POSIT_END THEN POSIT_START
              ELSE IF dc > POSIT_END THEN POSIT_END
              ELSE IF dc < POSIT_END THEN POSIT_END
              ELSE reach
    ELSE reach

(* Variant of Direction: the comparison reversed *)
Direction_rev(reach, dc) ==
    IF reach < dc THEN MOVINGUP ELSE MOVINGDOWN

(* The direction of a motion.  rf_motor.c:286-289                          *)
Direction(reach, dc) ==
    IF reach > dc THEN MOVINGUP ELSE MOVINGDOWN

(* Pwm1_dc++ and Pwm1_dc-- on an unsigned short.  rf_motor.c:302, 316      *)
Inc(dc) ==
    (dc + 1) % USHORT

(* Variant of Dec: MOVINGDOWN copied from MOVINGUP with the ++ left in *)
Dec_copied(dc) ==
    (dc + 1) % USHORT

Dec(dc) ==
    (dc + USHORT - 1) % USHORT

(* The statement at m.pc.                                                  *)
MainStmt(m, det, b) ==
    CASE m.pc = "confirm"    -> [m EXCEPT !.pc = ConfirmBranch(m, det)]
      (* case IDLE, rf_motor.c:175-176 *)
      [] m.pc = "idle_long"  -> [m EXCEPT !.long = VALIDATE_RF, !.pc = "idle_conf"]
      [] m.pc = "idle_conf"  -> [m EXCEPT !.conf = VALIDATE, !.pc = "trigger"]
      (* case VALIDATE, rf_motor.c:183-195 *)
      [] m.pc = "val_chk"    -> [m EXCEPT !.pc = IF m.long = 0 THEN "val_led" ELSE "trigger"]
      [] m.pc = "val_led"    -> [m EXCEPT !.led = TRUE, !.pc = "val_long"]
      [] m.pc = "val_long"   -> [m EXCEPT !.long = WAITEND_RF, !.pc = "val_conf"]
      [] m.pc = "val_conf"   -> [m EXCEPT !.conf = WAITDETEND, !.pc = "trigger"]
      [] m.pc = "val_idle"   -> [m EXCEPT !.conf = IDLE, !.pc = "trigger"]
      (* case WAITDETEND, rf_motor.c:201-214 *)
      [] m.pc = "wde_chk"    -> [m EXCEPT !.pc = IF m.long = 0 THEN "wde_led" ELSE "trigger"]
      [] m.pc = "wde_led"    -> [m EXCEPT !.led = FALSE, !.pc = "wde_cmd"]
      [] m.pc = "wde_cmd"    -> [m EXCEPT !.cmd = TRUE, !.pc = "wde_conf"]
      [] m.pc = "wde_conf"   -> [m EXCEPT !.conf = IGNORE, !.pc = "wde_long"]
      [] m.pc = "wde_long"   -> [m EXCEPT !.long = IGNORE_RF, !.pc = "trigger"]
      [] m.pc = "wde_reload" -> [m EXCEPT !.long = WAITEND_RF, !.pc = "trigger"]
      (* case IGNORE, rf_motor.c:221-222 *)
      [] m.pc = "ign_conf"   -> [m EXCEPT !.conf = IDLE, !.pc = "ign_cmd"]
      [] m.pc = "ign_cmd"    -> [m EXCEPT !.cmd = FALSE, !.pc = "trigger"]
      (* default, rf_motor.c:227-229 *)
      [] m.pc = "def_short"  -> [m EXCEPT !.short = 0, !.pc = "def_long"]
      [] m.pc = "def_long"   -> [m EXCEPT !.long = 0, !.pc = "def_conf"]
      [] m.pc = "def_conf"   -> [m EXCEPT !.conf = IDLE, !.pc = "trigger"]
      (* if(testButton(S2_BUTTON) || ...) switch(Pwm1_State), rf_motor.c:243-253 *)
      [] m.pc = "trigger"    -> [m EXCEPT !.pc = IF Triggered(m, b)
                                                 THEN PositBranch(m) ELSE "confirm"]
      (* default: case POSIT, rf_motor.c:257-290 *)
      [] m.pc = "pos_cmd"    -> [m EXCEPT !.cmd = FALSE, !.pc = "pos_reach"]
      [] m.pc = "pos_reach"  -> [m EXCEPT !.reach = ReachFor(m.dc, m.reach), !.pc = "pos_st"]
      [] m.pc = "pos_st"     -> [m EXCEPT !.st = Direction(m.reach, m.dc), !.pc = "confirm"]
      (* case MOVINGUP, rf_motor.c:293-303 *)
      [] m.pc = "up_cmd"     -> [m EXCEPT !.cmd = FALSE, !.pc = "up_posit"]
      [] m.pc = "up_posit"   -> [m EXCEPT !.st = POSIT, !.pc = "confirm"]
      [] m.pc = "up_st"      -> [m EXCEPT !.st = WAITINGUP, !.pc = "up_delay"]
      [] m.pc = "up_delay"   -> [m EXCEPT !.delay = SPEED, !.pc = "up_dc"]
      [] m.pc = "up_dc"      -> [m EXCEPT !.dc = Inc(m.dc), !.pc = "confirm"]
      (* case MOVINGDOWN, rf_motor.c:307-317 *)
      [] m.pc = "down_cmd"   -> [m EXCEPT !.cmd = FALSE, !.pc = "down_posit"]
      [] m.pc = "down_posit" -> [m EXCEPT !.st = POSIT, !.pc = "confirm"]
      [] m.pc = "down_st"    -> [m EXCEPT !.st = WAITINGDOWN, !.pc = "down_delay"]
      [] m.pc = "down_delay" -> [m EXCEPT !.delay = SPEED, !.pc = "down_dc"]
      [] m.pc = "down_dc"    -> [m EXCEPT !.dc = Dec(m.dc), !.pc = "confirm"]
      (* case WAITINGUP, WAITINGDOWN, rf_motor.c:321-327 *)
      [] m.pc = "wup_st"     -> [m EXCEPT !.st = MOVINGUP, !.pc = "confirm"]
      [] m.pc = "wdown_st"   -> [m EXCEPT !.st = MOVINGDOWN, !.pc = "confirm"]

(* testButton(S2_BUTTON) busy-waits for the release of a pressed button    *)
(* and touches no variable of the program (rf_motor.c:420-443): what the   *)
(* loop sees of it is the value returned, TRUE once per press.             *)
MainStep(b) ==
      LET m == [reach |-> Pwm1_reach, dc |-> Pwm1_dc, st |-> Pwm1_State,
                delay |-> Pwm1_delay, conf |-> RfDetConfirmSt,
                long |-> RfLongDelay, short |-> RfShortDelay,
                cmd |-> Command, led |-> P1OUT_LED, pc |-> pc]
          n == MainStmt(m, RfDetected, b)
          taken == pc = "trigger" /\ n.pc = "pos_cmd"
          late  == pc = "trigger" /\ Pwm1_State \in Moving /\ (b \/ Command)
      IN  /\ Pwm1_reach' = n.reach
          /\ Pwm1_dc' = n.dc
          /\ Pwm1_State' = n.st
          /\ Pwm1_delay' = n.delay
          /\ RfDetConfirmSt' = n.conf
          /\ RfLongDelay' = n.long
          /\ RfShortDelay' = n.short
          /\ Command' = n.cmd
          /\ P1OUT_LED' = n.led
          /\ pc' = n.pc
          /\ dcAtTrigger' = IF taken THEN Pwm1_dc ELSE dcAtTrigger
          /\ dcChanges' = IF taken THEN 0
                          ELSE IF n.dc # Pwm1_dc /\ dcChanges <= PWM1_MAXSTEP
                               THEN dcChanges + 1 ELSE dcChanges
          /\ sinceChange' = IF n.dc # Pwm1_dc THEN 0
                            ELSE IF taken \/ (n.st = POSIT /\ Pwm1_State # POSIT)
                                 THEN -1 ELSE sinceChange
          /\ motions' = IF n.st = POSIT /\ Pwm1_State # POSIT
                        THEN 1 - motions ELSE motions
          /\ lateTrigger' = IF taken THEN "none"
                            ELSE IF late
                                 THEN (IF Command THEN "command" ELSE "button")
                                 ELSE lateTrigger
          /\ cmdSets' = IF pc = "idle_conf" THEN 0
                        ELSE IF pc = "wde_cmd" /\ cmdSets < 2
                             THEN cmdSets + 1 ELSE cmdSets
          /\ ignTicks' = IF pc = "wde_long" THEN 0
                         ELSE IF pc = "ign_conf" THEN -1 ELSE ignTicks
          /\ absTicks' = IF n.conf \in {VALIDATE, WAITDETEND} THEN absTicks ELSE 0
          /\ ldTicks' = IF pc \in {"idle_long", "val_long", "wde_reload"} THEN 0
                        ELSE IF pc \in {"val_idle", "wde_conf"} THEN -1
                        ELSE ldTicks
          /\ pwmHigh' = IF n.dc # Pwm1_dc THEN -1 ELSE pwmHigh
          /\ UNCHANGED <<Pwm1_cn, RfDetState, RfDetCounter, RfDetected, RfPrescaler,
                         P1OUT_PWM1, P1IN_RF, P1IE_RF, P1IFG_RF,
                         pwmTicks, pwmPeriod, rfPhase, rfHi, rfLo, detTicks,
                         preTicks, prePeriod, latched, rises, prog>>

(* The loop with the button free: any call of testButton may return TRUE.  *)
Main ==
    \E b \in BOOLEAN : MainStep(b) /\ UNCHANGED presses

(* The loop with the button never pressed.                                 *)
MainQuiet ==
    MainStep(FALSE) /\ UNCHANGED presses

(* The loop with at most MaxPresses presses of the button.                 *)
MainPress ==
    /\ pc = "trigger"
    /\ presses < MaxPresses
    /\ MainStep(TRUE)
    /\ presses' = presses + 1

(* ====================== pwmtest2.c ===================================== *)
(* The bench program for the servo: S1 steps through the modes, S2 acts in *)
(* the mode.  It has the globals Pwm1_reach, Pwm1_dc, Pwm1_cn, Pwm1_State  *)
(* and Pwm1_delay, the LED and the PWM pin; it has no RF part, and the     *)
(* variables of rf_motor.c that it lacks stay as they are.                 *)

(* Init (pwmtest2.c:268-317) *)
T2_Init ==
    /\ prog = "pwmtest2"
    /\ Pwm1_cn = 0
    /\ Pwm1_dc = T2_PWMINITIALVALUE
    /\ Pwm1_reach = T2_PWMINITIALVALUE
    /\ Pwm1_State = T2_RESET
    /\ Pwm1_delay = 0
    /\ P1OUT_LED = FALSE
    /\ P1OUT_PWM1 = FALSE
    /\ pc = "t2_s1"
    /\ RfDetState = IDLE /\ RfDetCounter = 0 /\ RfDetConfirmSt = IDLE
    /\ RfDetected = FALSE /\ RfPrescaler = PRESCALER
    /\ RfShortDelay = 0 /\ RfLongDelay = 0 /\ Command = FALSE
    /\ P1IN_RF = FALSE /\ P1IE_RF = FALSE /\ P1IFG_RF = FALSE
    /\ pwmTicks = -1 /\ pwmPeriod = 0
    /\ dcAtTrigger = T2_PWMINITIALVALUE /\ dcChanges = 0 /\ sinceChange = -1
    /\ motions = 0 /\ lateTrigger = "none"
    /\ rfPhase = "none" /\ rfHi = 0 /\ rfLo = 0
    /\ detTicks = 0 /\ cmdSets = 0 /\ ignTicks = -1 /\ absTicks = 0
    /\ preTicks = -1 /\ prePeriod = 0 /\ ldTicks = -1 /\ latched = FALSE
    /\ pwmHigh = -1
    /\ rises = 0 /\ presses = 0

T2_Moving == {T2_MOVINGUP, T2_MOVINGDOWN, T2_WAITINGUP, T2_WAITINGDOWN}

(* The mode after a press of S1.  pwmtest2.c:117-148                       *)
T2_S1Next(st) ==
    CASE st = T2_POSIT -> T2_POSITOLD
      [] st = T2_POSITOLD -> T2_INCREASE
      [] st = T2_INCREASE -> T2_DECREASE
      [] st = T2_DECREASE -> T2_RESET
      [] st \in T2_Moving -> st
      [] OTHER -> T2_POSIT

(* Variant of T2_ReachFor: between the endpoints the goal is POSIT1        *)
T2_ReachFor_midlow(dc, reach) ==
    IF dc = T2_POSIT1 THEN T2_POSIT2
    ELSE IF dc < T2_POSIT1 THEN T2_POSIT1
    ELSE IF dc > T2_POSIT1
         THEN IF dc = T2_POSIT2 THEN T2_POSIT1
              ELSE IF dc > T2_POSIT2 THEN T2_POSIT2
              ELSE IF dc < T2_POSIT2 THEN T2_POSIT1
              ELSE reach
    ELSE reach

(* case POSIT: the goal and the state chosen by the branch that dc takes.  *)
(* pwmtest2.c:172-199                                                      *)
T2_ReachFor(dc, reach) ==
    IF dc = T2_POSIT1 THEN T2_POSIT2
    ELSE IF dc < T2_POSIT1 THEN T2_POSIT1
    ELSE IF dc > T2_POSIT1
         THEN IF dc = T2_POSIT2 THEN T2_POSIT1
              ELSE IF dc > T2_POSIT2 THEN T2_POSIT2
              ELSE IF dc < T2_POSIT2 THEN T2_POSIT2
              ELSE reach
    ELSE reach

T2_StateFor(dc, st) ==
    IF dc = T2_POSIT1 THEN T2_MOVINGUP
    ELSE IF dc < T2_POSIT1 THEN T2_MOVINGUP
    ELSE IF dc > T2_POSIT1
         THEN IF dc = T2_POSIT2 THEN T2_MOVINGDOWN
              ELSE IF dc > T2_POSIT2 THEN T2_MOVINGDOWN
              ELSE IF dc < T2_POSIT2 THEN T2_MOVINGUP
              ELSE st
    ELSE st

(* Variant of T2_S2Branch: case DECREASE without the test against 0        *)
T2_S2Branch_noclamp(m) ==
    CASE m.st = T2_POSIT -> "t2_pos_reach"
      [] m.st = T2_POSITOLD -> "t2_old"
      [] m.st = T2_INCREASE -> IF m.dc < T2_PWM1_MAXSTEP THEN "t2_inc" ELSE "t2_led"
      [] m.st = T2_DECREASE -> "t2_dec"
      [] m.st = T2_MOVINGUP -> IF m.dc = m.reach THEN "t2_up_posit" ELSE "t2_up_st"
      [] m.st = T2_MOVINGDOWN -> IF m.dc = m.reach THEN "t2_down_posit" ELSE "t2_down_st"
      [] m.st = T2_WAITINGUP -> IF m.delay = 0 THEN "t2_wup_st" ELSE "t2_led"
      [] m.st = T2_WAITINGDOWN -> IF m.delay = 0 THEN "t2_wdown_st" ELSE "t2_led"
      [] OTHER -> "t2_reset"

(* switch(Pwm1_State) of the S2 part and the condition of the case         *)
(* entered.  pwmtest2.c:160-250                                            *)
T2_S2Branch(m) ==
    CASE m.st = T2_POSIT -> "t2_pos_reach"
      [] m.st = T2_POSITOLD -> "t2_old"
      [] m.st = T2_INCREASE -> IF m.dc < T2_PWM1_MAXSTEP THEN "t2_inc" ELSE "t2_led"
      [] m.st = T2_DECREASE -> IF m.dc > 0 THEN "t2_dec" ELSE "t2_led"
      [] m.st = T2_MOVINGUP -> IF m.dc = m.reach THEN "t2_up_posit" ELSE "t2_up_st"
      [] m.st = T2_MOVINGDOWN -> IF m.dc = m.reach THEN "t2_down_posit" ELSE "t2_down_st"
      [] m.st = T2_WAITINGUP -> IF m.delay = 0 THEN "t2_wup_st" ELSE "t2_led"
      [] m.st = T2_WAITINGDOWN -> IF m.delay = 0 THEN "t2_wdown_st" ELSE "t2_led"
      [] OTHER -> "t2_reset"

(* The statement at m.pc; b1 and b2 are what testButton(S1_BUTTON) and     *)
(* testButton(S2_BUTTON) return.  pwmtest2.c:97-262                        *)
T2_MainStmt(m, b1, b2) ==
    CASE m.pc = "t2_s1" ->
           [m EXCEPT !.st = IF b1 THEN T2_S1Next(m.st) ELSE m.st, !.pc = "t2_s2"]
      [] m.pc = "t2_s2" ->
           [m EXCEPT !.pc = IF b2 \/ m.st \in T2_Moving
                            THEN T2_S2Branch(m) ELSE "t2_led"]
      [] m.pc = "t2_reset" -> [m EXCEPT !.dc = T2_PWMINITIALVALUE, !.pc = "t2_led"]
      [] m.pc = "t2_pos_reach" ->
           [m EXCEPT !.reach = T2_ReachFor(m.dc, m.reach), !.pc = "t2_pos_st"]
      [] m.pc = "t2_pos_st" ->
           [m EXCEPT !.st = T2_StateFor(m.dc, m.st), !.pc = "t2_led"]
      [] m.pc = "t2_old" ->
           [m EXCEPT !.dc = IF m.dc # T2_POSIT1 THEN T2_POSIT1 ELSE T2_POSIT2,
                     !.pc = "t2_led"]
      [] m.pc = "t2_inc" -> [m EXCEPT !.dc = Inc(m.dc), !.pc = "t2_led"]
      [] m.pc = "t2_dec" -> [m EXCEPT !.dc = Dec(m.dc), !.pc = "t2_led"]
      [] m.pc = "t2_up_posit" -> [m EXCEPT !.st = T2_POSIT, !.pc = "t2_led"]
      [] m.pc = "t2_up_st" -> [m EXCEPT !.st = T2_WAITINGUP, !.pc = "t2_up_delay"]
      [] m.pc = "t2_up_delay" -> [m EXCEPT !.delay = SPEED, !.pc = "t2_up_dc"]
      [] m.pc = "t2_up_dc" -> [m EXCEPT !.dc = Inc(m.dc), !.pc = "t2_led"]
      [] m.pc = "t2_down_posit" -> [m EXCEPT !.st = T2_POSIT, !.pc = "t2_led"]
      [] m.pc = "t2_down_st" -> [m EXCEPT !.st = T2_WAITINGDOWN, !.pc = "t2_down_delay"]
      [] m.pc = "t2_down_delay" -> [m EXCEPT !.delay = SPEED, !.pc = "t2_down_dc"]
      [] m.pc = "t2_down_dc" -> [m EXCEPT !.dc = Dec(m.dc), !.pc = "t2_led"]
      [] m.pc = "t2_wup_st" -> [m EXCEPT !.st = T2_MOVINGUP, !.pc = "t2_led"]
      [] m.pc = "t2_wdown_st" -> [m EXCEPT !.st = T2_MOVINGDOWN, !.pc = "t2_led"]
      [] m.pc = "t2_led" ->
           [m EXCEPT !.led = (m.dc >= T2_SERVOMIN /\ m.dc <= T2_SERVOMAX),
                     !.pc = "t2_s1"]

T2_Main ==
    \E b1, b2 \in BOOLEAN :
      LET m == [reach |-> Pwm1_reach, dc |-> Pwm1_dc, st |-> Pwm1_State,
                delay |-> Pwm1_delay, led |-> P1OUT_LED, pc |-> pc]
          n == T2_MainStmt(m, b1, b2)
      IN  /\ Pwm1_reach' = n.reach
          /\ Pwm1_dc' = n.dc
          /\ Pwm1_State' = n.st
          /\ Pwm1_delay' = n.delay
          /\ P1OUT_LED' = n.led
          /\ pc' = n.pc
          /\ UNCHANGED <<Pwm1_cn, RfDetState, RfDetCounter, RfDetected, RfDetConfirmSt,
                         RfPrescaler, RfLongDelay, RfShortDelay, Command,
                         P1OUT_PWM1, P1IN_RF, P1IE_RF, P1IFG_RF,
                         histVars, envVars, prog>>

(* The PWM counter and level after a tick.  pwmtest2.c:383-399             *)
T2_PwmCount(cn) ==
    IF cn < T2_PWM1_MAXSTEP THEN cn + 1 ELSE 0

T2_PwmLevel(cn, dc) ==
    IF cn < T2_PWM1_MAXSTEP THEN (cn + 1 <= dc) ELSE FALSE

(* Timer_A of pwmtest2.c (pwmtest2.c:378-401): the delay and the PWM only. *)
T2_Timer_A ==
    /\ Pwm1_delay' = CountDown(Pwm1_delay)
    /\ Pwm1_cn' = T2_PwmCount(Pwm1_cn)
    /\ P1OUT_PWM1' = T2_PwmLevel(Pwm1_cn, Pwm1_dc)
    /\ UNCHANGED <<Pwm1_reach, Pwm1_dc, Pwm1_State,
                   RfDetState, RfDetCounter, RfDetected, RfDetConfirmSt,
                   RfPrescaler, RfLongDelay, RfShortDelay, Command,
                   P1OUT_LED, P1IN_RF, P1IE_RF, P1IFG_RF, pc,
                   histVars, envVars, prog>>

(* ======================== specifications =============================== *)
(* Spec: every behaviour of the program with at most MaxRises rising edges *)
(* of the RF line.                                                         *)
Next ==
    \/ Timer_A
    \/ Port1_isr
    \/ Main
    \/ RfRise
    \/ RfFall

Spec == Init /\ [][Next]_vars

(* SpecPos: no carrier, the RF line stays low; the button is free.         *)
NextPos ==
    \/ Timer_A
    \/ Main

SpecPos == Init /\ [][NextPos]_vars

(* The timer interrupts periodically and the foreground loop never stops.  *)
SpecPosFair == SpecPos /\ WF_vars(Timer_A) /\ WF_vars(Main)

(* SpecAnyDc: as SpecPos, from every duty cycle in 0 .. PWM1_MAXSTEP: the  *)
(* inputs of the choice of goal and direction made in case POSIT.          *)
InitAnyDc ==
    \E d \in 0 .. PWM1_MAXSTEP : InitAt(d)

SpecAnyDc == InitAnyDc /\ [][NextPos]_vars

(* SpecRf: the button is never pressed; motions start from RF commands.    *)
NextRf ==
    \/ Timer_A
    \/ Port1_isr
    \/ MainQuiet
    \/ RfRise
    \/ RfFall

SpecRf == Init /\ [][NextRf]_vars

(* SpecAll: RF line and button together, both budgeted.                    *)
NextAll ==
    \/ Timer_A
    \/ Port1_isr
    \/ MainQuiet
    \/ MainPress
    \/ RfRise
    \/ RfFall

SpecAll == Init /\ [][NextAll]_vars

SpecRfFair == SpecRf /\ WF_vars(Timer_A) /\ WF_vars(MainQuiet)

(* SpecLatch: as SpecRf, with MaxRises + 1 rising edges: a detection, a     *)
(* failed one that ends it, and a third detection.                         *)
NextLatch ==
    \/ Timer_A
    \/ Port1_isr
    \/ MainQuiet
    \/ RfRiseMore
    \/ RfFall

SpecLatch == Init /\ [][NextLatch]_vars

(* SpecBoth: either program, with its buttons free: rf_motor.c as in       *)
(* SpecPos, or pwmtest2.c.                                                 *)
InitBoth ==
    Init \/ T2_Init

NextBoth ==
    \/ (prog = "rf_motor" /\ Timer_A)
    \/ (prog = "rf_motor" /\ Main)
    \/ (prog = "pwmtest2" /\ T2_Timer_A)
    \/ (prog = "pwmtest2" /\ T2_Main)

SpecBoth == InitBoth /\ [][NextBoth]_vars

(* SpecCorrupt: rf_motor.c as in SpecAll, started with one of its three     *)
(* state variables holding a value that is none of its state codes, as     *)
(* after a corruption of memory, and followed until all three hold state   *)
(* codes again; the two delays that the default branch of the confirmation *)
(* switch clears are nonzero at the start.                                 *)
ConfCodes == {IDLE, VALIDATE, WAITDETEND, IGNORE}
DetCodes == {IDLE, DETHIGH, DETLOW, DETEND}
PosCodes == {POSIT, MOVINGUP, MOVINGDOWN, WAITINGUP, WAITINGDOWN}

InitCorrupt ==
    /\ \E which \in {"conf", "det", "pos"} :
       \E code \in (0 .. MaxCode) \ (ConfCodes \cup DetCodes \cup PosCodes) :
          /\ RfDetConfirmSt = (IF which = "conf" THEN code ELSE IDLE)
          /\ RfDetState = (IF which = "det" THEN code ELSE IDLE)
          /\ Pwm1_State = (IF which = "pos" THEN code ELSE POSIT)
          /\ RfShortDelay = (IF which = "conf" THEN 1 ELSE 0)
          /\ RfLongDelay = (IF which = "conf" THEN 1 ELSE 0)
    /\ Pwm1_cn = 0
    /\ Pwm1_dc = PWMINITIALVALUE
    /\ Pwm1_reach = PWMINITIALVALUE
    /\ Pwm1_delay = 0
    /\ RfDetCounter = 0
    /\ RfDetected = FALSE
    /\ RfPrescaler = PRESCALER
    /\ Command = FALSE
    /\ P1OUT_LED = FALSE
    /\ P1OUT_PWM1 = FALSE
    /\ P1IN_RF = FALSE
    /\ P1IE_RF = TRUE
    /\ P1IFG_RF = FALSE
    /\ pc = "confirm"
    /\ pwmTicks = -1 /\ pwmPeriod = 0
    /\ dcAtTrigger = PWMINITIALVALUE /\ dcChanges = 0 /\ sinceChange = -1
    /\ motions = 0 /\ lateTrigger = "none"
    /\ rfPhase = "none" /\ rfHi = 0 /\ rfLo = 0
    /\ detTicks = 0 /\ cmdSets = 0 /\ ignTicks = -1 /\ absTicks = 0
    /\ preTicks = -1 /\ prePeriod = 0 /\ ldTicks = -1 /\ latched = FALSE
    /\ pwmHigh = 0
    /\ rises = 0 /\ presses = 0
    /\ prog = "rf_motor"

StillCorrupt ==
    \/ RfDetConfirmSt \notin ConfCodes
    \/ RfDetState \notin DetCodes
    \/ Pwm1_State \notin PosCodes

NextCorrupt ==
    \/ (StillCorrupt /\ Timer_A)
    \/ (StillCorrupt /\ Port1_isr)
    \/ (StillCorrupt /\ MainQuiet)
    \/ (StillCorrupt /\ MainPress)
    \/ (StillCorrupt /\ RfRise)
    \/ (StillCorrupt /\ RfFall)

SpecCorrupt == InitCorrupt /\ [][NextCorrupt]_vars

(* ============================== claims ================================= *)

(* C1: after every tick Pwm1_cn lies in [0, PWM1_MAXSTEP): it never holds  *)
(* the value PWM1_MAXSTEP.  (Refuted: the counter is incremented while it  *)
(* is below PWM1_MAXSTEP, so it holds PWM1_MAXSTEP for one tick.)          *)
C1_CounterBelowMaxStep ==
    Pwm1_cn \in 0 .. (PWM1_MAXSTEP - 1)

(* C2, as stated: after every tick the PWM pin is HIGH iff Pwm1_cn after   *)
(* the tick is <= Pwm1_dc, the tick that wraps the counter included.       *)
C2_HighIffCounterLeDuty ==
    [][Timer_A => (P1OUT_PWM1' = (Pwm1_cn' <= Pwm1_dc'))]_vars

(* C2, amended: after every tick the PWM pin is HIGH iff Pwm1_cn after the *)
(* tick is nonzero and <= Pwm1_dc; on the tick that resets the counter to  *)
(* 0 the pin is LOW whatever Pwm1_dc is.                                   *)
C2_HighIffCountedAndLeDuty ==
    [][Timer_A => (P1OUT_PWM1' = (Pwm1_cn' # 0 /\ Pwm1_cn' <= Pwm1_dc'))]_vars

(* C2 witness: a later period, on the last HIGH tick of its pulse.         *)
C2_Witness ==
    pwmPeriod > 0 /\ P1OUT_PWM1 /\ Pwm1_cn = Pwm1_dc

(* C3: the number of ticks from one reset of Pwm1_cn to the next is        *)
(* PWM1_MAXSTEP.  (Refuted: it is PWM1_MAXSTEP + 1.)                       *)
C3_PeriodIsMaxStep ==
    pwmPeriod \in {0, PWM1_MAXSTEP}

Abs(x) ==
    IF x < 0 THEN -x ELSE x

UpStates == {MOVINGUP, WAITINGUP}
DownStates == {MOVINGDOWN, WAITINGDOWN}

(* C4: a trigger taken in POSIT at duty cycle D leads, under fair          *)
(* scheduling of ticks and loop iterations, back to POSIT with Pwm1_dc =   *)
(* Pwm1_reach after exactly |Pwm1_reach - D| changes of Pwm1_dc, each of   *)
(* them one unit toward Pwm1_reach.                                        *)
C4_MotionTerminates ==
    /\ (pc = "pos_cmd") ~> (/\ pc = "confirm"
                            /\ Pwm1_State = POSIT
                            /\ Pwm1_dc = Pwm1_reach
                            /\ Pwm1_reach # dcAtTrigger
                            /\ dcChanges = Abs(Pwm1_reach - dcAtTrigger))
    /\ [][Pwm1_dc' # Pwm1_dc =>
            /\ Pwm1_State \in Moving
            /\ Pwm1_reach' = Pwm1_reach
            /\ Abs(Pwm1_reach - Pwm1_dc') = Abs(Pwm1_reach - Pwm1_dc) - 1]_vars

(* C4 witness: a motion down to POSIT_END is over, after as many changes   *)
(* as the goal was away.                                                   *)
C4_Witness ==
    /\ pc = "confirm" /\ Pwm1_State = POSIT
    /\ Pwm1_dc = Pwm1_reach /\ Pwm1_reach = POSIT_END
    /\ dcChanges = Abs(Pwm1_reach - dcAtTrigger) /\ dcChanges > 1

(* C5: within one motion two consecutive changes of Pwm1_dc are at least   *)
(* SPEED ticks apart, for every interleaving of ticks with the statements  *)
(* of the loop.  (Refuted: Pwm1_delay is loaded before Pwm1_dc is changed, *)
(* and a tick between the two statements is taken off the separation.)     *)
C5_ChangesSpeedApart ==
    [][(Pwm1_dc' # Pwm1_dc /\ sinceChange >= 0) => sinceChange >= SPEED]_vars

(* C6: a trigger that arrives during a motion changes nothing: while       *)
(* Pwm1_State is not POSIT Pwm1_reach and the direction stay as they are,  *)
(* and the motion ends with Command reset, so that no motion follows from  *)
(* that trigger.                                                           *)
C6_TriggerWhileMovingIgnored ==
    [][/\ Pwm1_State \in Moving => Pwm1_reach' = Pwm1_reach
       /\ Pwm1_State \in UpStates => Pwm1_State' \in UpStates \cup {POSIT}
       /\ Pwm1_State \in DownStates => Pwm1_State' \in DownStates \cup {POSIT}
       /\ (Pwm1_State \in Moving /\ Pwm1_State' = POSIT) => ~Command'
       /\ (Pwm1_State = POSIT /\ Pwm1_State' # POSIT) => pc = "pos_st"]_vars

(* C6 witness: a motion is just over during which Command became TRUE.     *)
C6_Witness ==
    /\ lateTrigger = "command" /\ Pwm1_State = POSIT /\ pc = "confirm"
    /\ Pwm1_dc = Pwm1_reach /\ ~Command

(* C7: for every duty cycle d in 0 .. PWM1_MAXSTEP a trigger taken in      *)
(* POSIT at d sets Pwm1_reach to POSIT_START or POSIT_END and never to d   *)
(* (POSIT_END from POSIT_START, POSIT_START from POSIT_END), then enters   *)
(* MOVINGUP if Pwm1_reach > d and MOVINGDOWN otherwise.                    *)
C7_GoalIsTheOtherEndpoint ==
    [][/\ (pc = "pos_reach" /\ pc' = "pos_st") =>
            /\ Pwm1_reach' \in {POSIT_START, POSIT_END}
            /\ Pwm1_reach' # Pwm1_dc
            /\ Pwm1_dc = POSIT_START => Pwm1_reach' = POSIT_END
            /\ Pwm1_dc = POSIT_END => Pwm1_reach' = POSIT_START
       /\ (pc = "pos_st" /\ pc' = "confirm") =>
            /\ Pwm1_reach > Pwm1_dc => Pwm1_State' = MOVINGUP
            /\ ~(Pwm1_reach > Pwm1_dc) => Pwm1_State' = MOVINGDOWN
            /\ Pwm1_dc' = dcAtTrigger]_vars

(* C7 witness: a motion begun from a duty cycle that is neither endpoint.  *)
C7_Witness ==
    /\ pc = "confirm" /\ Pwm1_State \in {MOVINGUP, MOVINGDOWN}
    /\ dcChanges = 0 /\ Pwm1_dc = dcAtTrigger
    /\ Pwm1_dc \notin {POSIT_START, POSIT_END}

(* C8: from Init (duty POSIT_START) the rest position alternates: after an *)
(* even number of motions the arm rests at POSIT_START and moves through   *)
(* MOVINGDOWN/WAITINGDOWN only, toward POSIT_END; after an odd number it   *)
(* rests at POSIT_END and moves through MOVINGUP/WAITINGUP only, toward    *)
(* POSIT_START.  In POSIT Pwm1_dc is always one of the two endpoints.      *)
C8_RestPositionAlternates ==
    /\ Pwm1_State = POSIT =>
          Pwm1_dc = (IF motions = 0 THEN POSIT_START ELSE POSIT_END)
    /\ Pwm1_State \in Moving =>
          /\ Pwm1_State \in (IF motions = 0 THEN DownStates ELSE UpStates)
          /\ Pwm1_reach = (IF motions = 0 THEN POSIT_END ELSE POSIT_START)
          /\ dcAtTrigger = (IF motions = 0 THEN POSIT_START ELSE POSIT_END)

(* C8 witness: at rest at POSIT_START again, after going down and up.      *)
C8_Witness ==
    /\ Pwm1_State = POSIT /\ pc = "confirm" /\ motions = 0
    /\ Pwm1_dc = POSIT_START /\ dcAtTrigger = POSIT_END /\ dcChanges > 0

(* C9: at rest, readings HIGH exactly COUNTHIGH times, then LOW exactly    *)
(* COUNTLOW times, then HIGH, after Port1_isr armed DETHIGH, end in DETEND *)
(* with RfDetected TRUE.                                                   *)
C9_CleanCarrierDetected ==
    (rfPhase = "done" /\ rfHi = COUNTHIGH /\ rfLo = COUNTLOW)
        => (RfDetState = DETEND /\ RfDetected = TRUE)

C9_Witness ==
    rfPhase = "done" /\ rfHi = COUNTHIGH /\ rfLo = COUNTLOW

(* C10: at rest, readings HIGH exactly COUNTHIGH - COUNTOLER - 1 times     *)
(* after Port1_isr armed DETHIGH keep the qualifier in DETHIGH, and the    *)
(* LOW reading that follows takes it to DETEND with RfDetected FALSE; it   *)
(* is never in DETLOW on the way.                                          *)
C10_ShortHighRejected ==
    /\ (rfPhase = "hi" /\ rfHi <= COUNTHIGH - COUNTOLER - 1)
          => RfDetState = DETHIGH
    /\ (rfPhase = "lo" /\ rfLo = 1 /\ rfHi = COUNTHIGH - COUNTOLER - 1)
          => (RfDetState = DETEND /\ RfDetected = FALSE)

C10_Witness ==
    rfPhase = "lo" /\ rfLo = 1 /\ rfHi = COUNTHIGH - COUNTOLER - 1 /\ rfHi > 0

(* C11: an interval of RfDetected TRUE shorter than VALIDATE_RF * PRESCALER *)
(* ticks never takes the confirmation machine to WAITDETEND: when the loop *)
(* in VALIDATE finds RfLongDelay expired and goes on to WAITDETEND, the    *)
(* interval has lasted at least that many ticks.  (Refuted: RfLongDelay is *)
(* decremented when the free-running RfPrescaler expires, the first time   *)
(* as little as one tick after it was loaded.)                             *)
C11_ShortPulseNeverValidated ==
    [][(pc = "val_chk" /\ pc' = "val_led")
          => detTicks >= VALIDATE_RF * PRESCALER]_vars

(* C12: a confirmation cycle that reaches WAITDETEND sets Command TRUE      *)
(* exactly once between leaving IDLE and returning to IDLE, however long   *)
(* RfDetected stayed TRUE: never twice, once by the time IGNORE returns to *)
(* IDLE, and, in WAITDETEND, RfDetected staying FALSE leads to the         *)
(* assignment.                                                             *)
C12_OneCommandPerCycle ==
    /\ [](cmdSets <= 1)
    /\ [][(pc = "ign_conf" /\ RfDetConfirmSt' = IDLE) => cmdSets = 1]_vars
    /\ [][(pc = "val_idle" /\ RfDetConfirmSt' = IDLE) => cmdSets = 0]_vars
    /\ (RfDetConfirmSt = WAITDETEND /\ cmdSets = 0) ~> (cmdSets = 1 \/ RfDetected)

(* C12 witness: back in IDLE after a cycle through WAITDETEND and IGNORE,   *)
(* the Command consumed by a motion.                                       *)
C12_Witness ==
    /\ RfDetConfirmSt = IDLE /\ pc = "trigger" /\ cmdSets = 1 /\ ~Command
    /\ ~RfDetected /\ Pwm1_dc # dcAtTrigger

C14_QualifierFrozenWhileMoving ==
    [][Pwm1_State # POSIT =>
          UNCHANGED <<RfDetState, RfDetCounter, RfDetected>>]_vars

(* C15: the P1.6 edge interrupt is enabled exactly when RfDetState is IDLE; *)
(* it is disabled only by Port1_isr arming DETHIGH and enabled again only  *)
(* by a tick that, in DETEND, reads the line HIGH and goes to IDLE.        *)
C15_EdgeEnabledIffIdle ==
    /\ [](P1IE_RF <=> RfDetState = IDLE)
    /\ [][(P1IE_RF /\ ~P1IE_RF') =>
             (P1IFG_RF /\ P1IN_RF /\ RfDetState' = DETHIGH)]_vars
    /\ [][(~P1IE_RF /\ P1IE_RF') =>
             /\ RfDetState = DETEND /\ RfDetState' = IDLE
             /\ P1IN_RF /\ Pwm1_State = POSIT
             /\ Pwm1_cn' # Pwm1_cn]_vars

(* C15 witness: the qualifier is back in IDLE with the interrupt enabled,   *)
(* after a detection.                                                      *)
C15_Witness ==
    RfDetState = IDLE /\ P1IE_RF /\ RfDetected

(* C17, as stated: RfDetCounter is 0 after every change of RfDetState.      *)
C17_CounterZeroAfterEveryChange ==
    [][RfDetState' # RfDetState => RfDetCounter' = 0]_vars

(* C17, amended: RfDetCounter is 0 after IDLE to DETHIGH, DETHIGH to DETLOW *)
(* and the successful DETLOW to DETEND (RfDetected set TRUE); the failing  *)
(* transitions to DETEND (RfDetected set FALSE) and DETEND to IDLE leave   *)
(* it as it was.                                                           *)
C17_CounterZeroAfterArmOrSuccess ==
    [][RfDetState' # RfDetState =>
          IF RfDetState' \in {DETHIGH, DETLOW} \/ (RfDetState' = DETEND /\ RfDetected')
          THEN RfDetCounter' = 0
          ELSE RfDetCounter' = RfDetCounter]_vars

(* C17 witness: DETEND entered through a failure, the count still there.    *)
C17_Witness ==
    RfDetState = DETEND /\ ~RfDetected /\ RfDetCounter > 0

(* C18: RfDetected changes only in a tick that takes RfDetState from        *)
(* DETHIGH or DETLOW to DETEND; edge notifications, the statements of the  *)
(* loop and every other tick leave it as it is.                            *)
C18_DetectedWrittenOnlyIntoDetEnd ==
    [][RfDetected' # RfDetected =>
          /\ RfDetState \in {DETHIGH, DETLOW} /\ RfDetState' = DETEND
          /\ Pwm1_cn' # Pwm1_cn
          /\ pc' = pc /\ P1IFG_RF' = P1IFG_RF]_vars

(* C18 witness: RfDetected just set TRUE by the tick that entered DETEND.   *)
C18_Witness ==
    RfDetState = DETEND /\ RfDetected /\ RfDetCounter = 0 /\ detTicks = 0

(* C16: in every reachable state of rf_motor.c and of pwmtest2.c Pwm1_dc    *)
(* lies in 0 .. PWM1_MAXSTEP, each program with its own PWM1_MAXSTEP: no   *)
(* step of a motion and no INCREASE or DECREASE step takes it above        *)
(* PWM1_MAXSTEP or wraps it below 0.                                       *)
C16_DutyInRange ==
    Pwm1_dc \in 0 .. (IF prog = "pwmtest2" THEN T2_PWM1_MAXSTEP ELSE PWM1_MAXSTEP)

(* C16 witness: pwmtest2.c in mode DECREASE with the duty cycle at 0, the   *)
(* S2 part of the iteration done.                                          *)
C16_Witness ==
    /\ prog = "pwmtest2" /\ Pwm1_State = T2_DECREASE /\ Pwm1_dc = 0
    /\ pc = "t2_led"

(* C19, as stated: in every reachable state Command implies RfDetConfirmSt  *)
(* = IGNORE, and at the end of every iteration of the loop Pwm1_State =    *)
(* POSIT implies Command = FALSE.                                          *)
C19_CommandOnlyInIgnore ==
    /\ Command => RfDetConfirmSt = IGNORE
    /\ (pc = "confirm" /\ Pwm1_State = POSIT) => ~Command

(* C19, amended: Command is set TRUE only by the WAITDETEND to IGNORE       *)
(* transition; at the end of every iteration of the loop Command implies   *)
(* RfDetConfirmSt = IGNORE and Pwm1_State = POSIT implies Command = FALSE; *)
(* inside an iteration Command is TRUE outside IGNORE only between the two *)
(* assignments of that transition and between the two of IGNORE to IDLE.   *)
C19_CommandOnlyInIgnoreAtLoopEnd ==
    /\ [][(Command' /\ ~Command) =>
             (pc = "wde_cmd" /\ RfDetConfirmSt = WAITDETEND)]_vars
    /\ [](pc = "confirm" => (Command => RfDetConfirmSt = IGNORE))
    /\ []((pc = "confirm" /\ Pwm1_State = POSIT) => ~Command)
    /\ []((Command /\ RfDetConfirmSt # IGNORE) =>
             \/ (pc = "wde_conf" /\ RfDetConfirmSt = WAITDETEND)
             \/ (pc = "ign_cmd" /\ RfDetConfirmSt = IDLE))

(* C19 witness: an iteration ends with Command TRUE, set during a motion    *)
(* that the button started.                                                *)
C19_Witness ==
    /\ pc = "confirm" /\ Command /\ RfDetConfirmSt = IGNORE
    /\ Pwm1_State \in Moving

Waiting == {WAITINGUP, WAITINGDOWN}

PositTransitions ==
    {<<POSIT, MOVINGUP>>, <<POSIT, MOVINGDOWN>>,
     <<MOVINGUP, POSIT>>, <<MOVINGUP, WAITINGUP>>,
     <<MOVINGDOWN, POSIT>>, <<MOVINGDOWN, WAITINGDOWN>>,
     <<WAITINGUP, MOVINGUP>>, <<WAITINGDOWN, MOVINGDOWN>>}

(* C20, as stated: the positioning machine takes only the transitions of    *)
(* PositTransitions, POSIT is left on a trigger, a Waiting state is left   *)
(* only with Pwm1_delay = 0, and every entry into a Waiting state happens  *)
(* with Pwm1_delay loaded with SPEED.                                      *)
C20_WaitingEnteredWithDelayLoaded ==
    [][Pwm1_State' # Pwm1_State =>
          /\ <<Pwm1_State, Pwm1_State'>> \in PositTransitions
          /\ Pwm1_State = POSIT => pc = "pos_st"
          /\ Pwm1_State \in Waiting => Pwm1_delay = 0
          /\ Pwm1_State' \in Waiting => Pwm1_delay' = SPEED]_vars

(* C20, amended: the same transitions; a Waiting state is entered with      *)
(* Pwm1_delay still 0, and the next statement of the loop, the one before  *)
(* the change of Pwm1_dc, loads it with SPEED.                             *)
C20_WaitingEnteredThenDelayLoaded ==
    [][/\ Pwm1_State' # Pwm1_State =>
            /\ <<Pwm1_State, Pwm1_State'>> \in PositTransitions
            /\ Pwm1_State = POSIT => pc = "pos_st"
            /\ Pwm1_State \in Waiting => Pwm1_delay = 0
            /\ Pwm1_State' \in Waiting =>
                  (Pwm1_delay' = 0 /\ pc' \in {"up_delay", "down_delay"})
       /\ (pc \in {"up_delay", "down_delay"} /\ pc' # pc) =>
            /\ Pwm1_delay' = SPEED
            /\ Pwm1_State' \in Waiting
            /\ pc' \in {"up_dc", "down_dc"}]_vars

(* C20 witness: in WAITINGUP, the delay just loaded, Pwm1_dc not yet        *)
(* changed.                                                                *)
C20_Witness ==
    Pwm1_State = WAITINGUP /\ pc = "up_dc" /\ Pwm1_delay = SPEED

(* C21: the confirmation machine leaves IDLE only for VALIDATE, in an       *)
(* iteration whose poll read RfDetected TRUE with Pwm1_State = POSIT and   *)
(* which loaded RfLongDelay with VALIDATE_RF; it goes from VALIDATE to     *)
(* WAITDETEND only in an iteration whose poll read RfDetected TRUE and     *)
(* then RfLongDelay = 0; a poll in VALIDATE that reads RfDetected FALSE    *)
(* returns to IDLE and touches neither the LED, RfLongDelay nor Command.   *)
C21_PollsDecideValidation ==
    [][/\ (RfDetConfirmSt = IDLE /\ RfDetConfirmSt' # IDLE) =>
            (pc = "idle_conf" /\ RfDetConfirmSt' = VALIDATE /\ Pwm1_State = POSIT)
       /\ (pc' = "idle_long" /\ pc # "idle_long") =>
            /\ pc = "confirm" /\ RfDetConfirmSt = IDLE
            /\ RfDetected /\ Pwm1_State = POSIT
       /\ (pc = "idle_long" /\ pc' # pc) =>
            (RfLongDelay' = VALIDATE_RF /\ pc' = "idle_conf")
       /\ (RfDetConfirmSt = VALIDATE /\ RfDetConfirmSt' # VALIDATE) =>
            \/ (pc = "val_conf" /\ RfDetConfirmSt' = WAITDETEND)
            \/ (pc = "val_idle" /\ RfDetConfirmSt' = IDLE)
       /\ (pc' = "val_chk" /\ pc # "val_chk") =>
            (pc = "confirm" /\ RfDetConfirmSt = VALIDATE /\ RfDetected)
       /\ (pc' = "val_led" /\ pc # "val_led") =>
            (pc = "val_chk" /\ RfLongDelay = 0)
       /\ (pc' = "val_long" /\ pc # "val_long") => pc = "val_led"
       /\ (pc' = "val_conf" /\ pc # "val_conf") => pc = "val_long"
       /\ (pc' = "val_idle" /\ pc # "val_idle") =>
            (pc = "confirm" /\ RfDetConfirmSt = VALIDATE /\ ~RfDetected)
       /\ (pc = "val_idle" /\ pc' # pc) =>
            /\ RfDetConfirmSt' = IDLE /\ pc' = "trigger"
            /\ UNCHANGED <<P1OUT_LED, RfLongDelay, Command>>]_vars

(* C21 witness: VALIDATE left for IDLE by a poll that read RfDetected      *)
(* FALSE, the countdown loaded on leaving IDLE still unexpired.            *)
C21_Witness ==
    /\ pc = "trigger" /\ RfDetConfirmSt = IDLE /\ ~RfDetected
    /\ cmdSets = 0 /\ rises = MaxRises /\ ~P1OUT_LED /\ RfDetState = DETEND
    /\ RfLongDelay = VALIDATE_RF

(* C22: in WAITDETEND a poll that reads RfDetected TRUE reloads RfLongDelay *)
(* with WAITEND_RF, and Command is set only by an iteration whose poll     *)
(* read RfDetected FALSE and then RfLongDelay = 0, by which time           *)
(* RfDetected has been FALSE for at least WAITEND_RF * PRESCALER ticks.    *)
(* (Refuted: the reloaded countdown is decremented when the free-running   *)
(* RfPrescaler expires, the first time as little as one tick after the     *)
(* reload, and it runs from the reload, not from the fall of RfDetected.)  *)
C22_CommandAfterCleanAbsence ==
    [][/\ (pc' = "wde_reload" /\ pc # "wde_reload") =>
            (pc = "confirm" /\ RfDetConfirmSt = WAITDETEND /\ RfDetected)
       /\ (pc = "confirm" /\ pc' # pc /\ RfDetConfirmSt = WAITDETEND /\ RfDetected) =>
            pc' = "wde_reload"
       /\ (pc = "wde_reload" /\ pc' # pc) => RfLongDelay' = WAITEND_RF
       /\ (pc' = "wde_chk" /\ pc # "wde_chk") =>
            (pc = "confirm" /\ RfDetConfirmSt = WAITDETEND /\ ~RfDetected)
       /\ (pc' = "wde_led" /\ pc # "wde_led") =>
            /\ pc = "wde_chk" /\ RfLongDelay = 0
            /\ absTicks >= WAITEND_RF * PRESCALER]_vars

(* C23, as stated: in every reachable state the LED is on iff              *)
(* RfDetConfirmSt = WAITDETEND.                                            *)
C23_LedIffWaitDetEnd ==
    P1OUT_LED <=> RfDetConfirmSt = WAITDETEND

(* C23, amended: the LED is on iff RfDetConfirmSt = WAITDETEND at the end   *)
(* of every iteration of the loop; inside an iteration the two differ only *)
(* between LED_ON and RfDetConfirmSt = WAITDETEND (LED on, still VALIDATE) *)
(* and between LED_OFF and RfDetConfirmSt = IGNORE (LED off, still         *)
(* WAITDETEND).  The LED is written by those two statements only.          *)
C23_LedIffWaitDetEndAtLoopEnd ==
    /\ [](pc = "confirm" => (P1OUT_LED <=> RfDetConfirmSt = WAITDETEND))
    /\ []((P1OUT_LED /\ RfDetConfirmSt # WAITDETEND) =>
             (pc \in {"val_long", "val_conf"} /\ RfDetConfirmSt = VALIDATE))
    /\ []((~P1OUT_LED /\ RfDetConfirmSt = WAITDETEND) =>
             pc \in {"wde_cmd", "wde_conf"})
    /\ [][P1OUT_LED' # P1OUT_LED =>
             \/ (pc = "val_led" /\ P1OUT_LED')
             \/ (pc = "wde_led" /\ ~P1OUT_LED')]_vars

(* C23 witness: an iteration ends in WAITDETEND with the LED on, RfDetected *)
(* already FALSE.                                                          *)
C23_Witness ==
    pc = "confirm" /\ P1OUT_LED /\ RfDetConfirmSt = WAITDETEND /\ ~RfDetected

(* C24: a nonzero RfLongDelay is decremented once every PRESCALER ticks,    *)
(* on the tick on which RfPrescaler expires, and therefore a countdown     *)
(* loaded with N is not at zero before N * PRESCALER ticks have passed:    *)
(* N = VALIDATE_RF or WAITEND_RF (ldTicks) and N = IGNORE_RF (ignTicks).   *)
(* (Refuted: RfPrescaler runs from PRESCALER down to 0 and is reloaded on  *)
(* the tick after, PRESCALER + 1 ticks from one expiry to the next; it is  *)
(* free-running, so the first decrement comes as little as one tick after  *)
(* the load.)                                                              *)
C24_DecrementEveryPrescalerTicks ==
    /\ [](prePeriod \in {0, PRESCALER})
    /\ [][RfLongDelay' = RfLongDelay - 1 =>
             (RfPrescaler = 0 /\ RfPrescaler' = PRESCALER)]_vars
    /\ []((ldTicks >= 0 /\ RfLongDelay = 0) => ldTicks >= VALIDATE_RF * PRESCALER)
    /\ []((ignTicks >= 0 /\ RfLongDelay = 0) => ignTicks >= IGNORE_RF * PRESCALER)

(* C25, as stated: in DETHIGH at rest a tick that reads HIGH increments     *)
(* RfDetCounter, and the tick on which it reaches COUNTHIGH switches to    *)
(* DETLOW with the counter reset; a tick that reads LOW switches to DETLOW *)
(* with the counter reset iff RfDetCounter >= COUNTHIGH - COUNTOLER, and   *)
(* otherwise to DETEND with RfDetected FALSE.                              *)
C25_DetHighSwitchesOnReaching ==
    [][(RfDetState = DETHIGH /\ Pwm1_State = POSIT /\ Pwm1_cn' # Pwm1_cn) =>
          IF P1IN_RF
          THEN IF RfDetCounter + 1 < COUNTHIGH
               THEN /\ RfDetState' = DETHIGH /\ RfDetCounter' = RfDetCounter + 1
                    /\ RfDetected' = RfDetected
               ELSE /\ RfDetState' = DETLOW /\ RfDetCounter' = 0
                    /\ RfDetected' = RfDetected
          ELSE IF RfDetCounter >= COUNTHIGH - COUNTOLER
               THEN /\ RfDetState' = DETLOW /\ RfDetCounter' = 0
                    /\ RfDetected' = RfDetected
               ELSE RfDetState' = DETEND /\ RfDetected' = FALSE]_vars

(* C25, amended: a tick that reads HIGH increments RfDetCounter while it is *)
(* below COUNTHIGH, the tick that takes it to COUNTHIGH included; the tick *)
(* that reads HIGH with RfDetCounter = COUNTHIGH, the (COUNTHIGH + 1)-th   *)
(* HIGH reading, switches to DETLOW with the counter reset.  The LOW       *)
(* readings as stated; a failure leaves the counter as it was.             *)
C25_DetHighSwitchesAfterReaching ==
    /\ [](RfDetState = DETHIGH => RfDetCounter <= COUNTHIGH)
    /\ [][(RfDetState = DETHIGH /\ Pwm1_State = POSIT /\ Pwm1_cn' # Pwm1_cn) =>
             IF P1IN_RF
             THEN IF RfDetCounter < COUNTHIGH
                  THEN /\ RfDetState' = DETHIGH /\ RfDetCounter' = RfDetCounter + 1
                       /\ RfDetected' = RfDetected
                  ELSE /\ RfDetState' = DETLOW /\ RfDetCounter' = 0
                       /\ RfDetected' = RfDetected
             ELSE IF RfDetCounter >= COUNTHIGH - COUNTOLER
                  THEN /\ RfDetState' = DETLOW /\ RfDetCounter' = 0
                       /\ RfDetected' = RfDetected
                  ELSE /\ RfDetState' = DETEND /\ RfDetected' = FALSE
                       /\ RfDetCounter' = RfDetCounter]_vars

(* C25 witness: DETLOW entered by the HIGH reading that found RfDetCounter  *)
(* at COUNTHIGH.                                                           *)
C25_Witness ==
    /\ RfDetState = DETLOW /\ RfDetCounter = 0 /\ Pwm1_State = POSIT
    /\ rfPhase = "hi" /\ rfHi = COUNTHIGH + 1

(* C26, as stated: pwmtest2.c never takes the branch of case POSIT for      *)
(* POSIT1 < Pwm1_dc < POSIT2: S2 is never acted on in state POSIT with the *)
(* duty cycle strictly between the endpoints.                              *)
C26_MiddleBranchUnreachable ==
    ~(/\ prog = "pwmtest2" /\ pc = "t2_pos_reach"
      /\ Pwm1_dc > T2_POSIT1 /\ Pwm1_dc < T2_POSIT2)

(* C26, amended: the branch is taken, INCREASE and DECREASE leave the duty  *)
(* cycle anywhere in 0 .. PWM1_MAXSTEP and S1 leads from there to POSIT    *)
(* without changing it; when it is taken it sets Pwm1_reach to POSIT2 and  *)
(* Pwm1_State to MOVINGUP, and the duty cycle is as S2 found it.           *)
C26_MiddleBranchGoesUp ==
    [][(/\ prog = "pwmtest2" /\ pc' # pc
        /\ Pwm1_dc > T2_POSIT1 /\ Pwm1_dc < T2_POSIT2) =>
          /\ pc = "t2_pos_reach" =>
                /\ Pwm1_State = T2_POSIT /\ Pwm1_reach' = T2_POSIT2
                /\ pc' = "t2_pos_st" /\ Pwm1_dc' = Pwm1_dc
          /\ pc = "t2_pos_st" =>
                /\ Pwm1_State' = T2_MOVINGUP /\ Pwm1_reach = T2_POSIT2
                /\ Pwm1_dc' = Pwm1_dc]_vars

(* C26 witness: inside the branch, the goal assigned, the state not yet.    *)
C26_Witness ==
    /\ prog = "pwmtest2" /\ pc = "t2_pos_st" /\ Pwm1_State = T2_POSIT
    /\ Pwm1_dc > T2_POSIT1 /\ Pwm1_dc < T2_POSIT2 /\ Pwm1_reach = T2_POSIT2

(* C27, as stated: a state variable that holds none of its state codes is   *)
(* reset: RfDetConfirmSt by the default branch, which zeroes RfShortDelay  *)
(* and RfLongDelay and assigns IDLE; RfDetState becomes IDLE on the next   *)
(* tick; Pwm1_State is POSIT at the end of the next iteration of the loop. *)
C27_DefaultsResetToInitial ==
    /\ [][(RfDetConfirmSt \notin ConfCodes /\ pc = "confirm" /\ pc' # pc) =>
             pc' = "def_short"]_vars
    /\ [][(RfDetConfirmSt \notin ConfCodes /\ RfDetConfirmSt' # RfDetConfirmSt) =>
             /\ pc = "def_conf" /\ RfDetConfirmSt' = IDLE
             /\ RfShortDelay = 0 /\ RfLongDelay = 0]_vars
    /\ [][(RfDetState \notin DetCodes /\ Pwm1_cn' # Pwm1_cn) =>
             RfDetState' = IDLE]_vars
    /\ [][(Pwm1_State \notin PosCodes /\ pc # "confirm" /\ pc' = "confirm") =>
             Pwm1_State' = POSIT]_vars

(* C27, amended: RfDetConfirmSt as stated.  RfDetState with no state code   *)
(* is handled as IDLE: ticks leave it as it is, and only Port1_isr, on a   *)
(* rising edge with the interrupt enabled, replaces it, by DETHIGH.        *)
(* Pwm1_State with no state code is handled as POSIT: nothing happens      *)
(* until the button is pressed or Command is TRUE, and then the branch of  *)
(* POSIT resets Command, chooses the goal and assigns MOVINGUP or          *)
(* MOVINGDOWN; meanwhile the RF qualifier does not run.                    *)
C27_DefaultsHandledAsFirstCase ==
    /\ [][(RfDetConfirmSt \notin ConfCodes /\ pc = "confirm" /\ pc' # pc) =>
             pc' = "def_short"]_vars
    /\ [][(pc = "def_short" /\ pc' # pc) =>
             (RfShortDelay' = 0 /\ pc' = "def_long")]_vars
    /\ [][(pc = "def_long" /\ pc' # pc) =>
             (RfLongDelay' = 0 /\ pc' = "def_conf")]_vars
    /\ [][(RfDetConfirmSt \notin ConfCodes /\ RfDetConfirmSt' # RfDetConfirmSt) =>
             /\ pc = "def_conf" /\ RfDetConfirmSt' = IDLE
             /\ RfShortDelay = 0 /\ RfLongDelay = 0]_vars
    /\ [][(RfDetState \notin DetCodes /\ RfDetState' # RfDetState) =>
             /\ P1IFG_RF /\ P1IE_RF /\ P1IN_RF
             /\ RfDetState' = DETHIGH /\ ~P1IE_RF' /\ Pwm1_cn' = Pwm1_cn]_vars
    /\ [][(Pwm1_State \notin PosCodes /\ pc = "trigger" /\ pc' # pc) =>
             IF presses' # presses \/ Command
             THEN pc' = "pos_cmd" ELSE pc' = "confirm"]_vars
    /\ [][(Pwm1_State \notin PosCodes /\ Pwm1_State' # Pwm1_State) =>
             /\ pc = "pos_st" /\ ~Command
             /\ Pwm1_State' = Direction(Pwm1_reach, Pwm1_dc)]_vars
    /\ [][Pwm1_State \notin PosCodes =>
             UNCHANGED <<RfDetCounter, RfDetected>>]_vars

(* C27 witness: Pwm1_State holds no state code, the button was pressed and  *)
(* the branch of POSIT has reset Command and chosen the goal.              *)
C27_Witness ==
    /\ Pwm1_State \notin PosCodes /\ pc = "pos_st" /\ presses = 1
    /\ Pwm1_reach = POSIT_END /\ ~Command

(* C28: the interrupt handlers never write Pwm1_dc, Pwm1_reach, Pwm1_State  *)
(* or Command, and the loop never writes RfDetState, RfDetCounter,         *)
(* RfDetected or the P1.6 interrupt enable: a step that changes one of the *)
(* first four is a statement of the loop, a step that changes one of the   *)
(* last four is a tick or an edge notification, and no step changes        *)
(* variables of both groups.                                               *)
C28_DisjointWriteSets ==
    /\ [][<<Pwm1_dc, Pwm1_reach, Pwm1_State, Command>>'
             # <<Pwm1_dc, Pwm1_reach, Pwm1_State, Command>> =>
            /\ pc' # pc
            /\ Pwm1_cn' = Pwm1_cn /\ P1IFG_RF' = P1IFG_RF
            /\ UNCHANGED <<RfDetState, RfDetCounter, RfDetected, P1IE_RF>>]_vars
    /\ [][<<RfDetState, RfDetCounter, RfDetected, P1IE_RF>>'
             # <<RfDetState, RfDetCounter, RfDetected, P1IE_RF>> =>
            /\ pc' = pc
            /\ (Pwm1_cn' # Pwm1_cn \/ (P1IFG_RF /\ ~P1IFG_RF'))
            /\ UNCHANGED <<Pwm1_dc, Pwm1_reach, Pwm1_State, Command>>]_vars
    /\ [][pc' # pc =>
            UNCHANGED <<RfDetState, RfDetCounter, RfDetected, P1IE_RF>>]_vars
    /\ [][(Pwm1_cn' # Pwm1_cn \/ P1IFG_RF' # P1IFG_RF) =>
            UNCHANGED <<Pwm1_dc, Pwm1_reach, Pwm1_State, Command>>]_vars

(* C28 witness: the loop is between the statements of case POSIT, Command   *)
(* consumed and the goal chosen, and the qualifier holds what the ticks    *)
(* left in it: a failed detection with its count.                          *)
C28_Witness ==
    /\ pc = "pos_st" /\ ~Command /\ Pwm1_reach # Pwm1_dc
    /\ RfDetState = DETEND /\ ~RfDetected /\ RfDetCounter > 0 /\ ~P1IE_RF

(* C29, as stated: once a tick has set RfDetected TRUE and every later tick *)
(* finds the RF line LOW, RfDetState stays DETEND and RfDetected stays     *)
(* TRUE, the confirmation machine does not leave WAITDETEND and Command is *)
(* not set TRUE.                                                           *)
C29_LatchedNeverCommands ==
    /\ [](latched => (RfDetState = DETEND /\ RfDetected))
    /\ [][(latched /\ latched' /\ RfDetConfirmSt = WAITDETEND) =>
             RfDetConfirmSt' = WAITDETEND]_vars
    /\ [][(latched /\ latched') => ~(Command' /\ ~Command)]_vars

(* C29, amended: as stated for RfDetState and RfDetected; every poll of     *)
(* WAITDETEND made after that tick reads RfDetected TRUE and reloads       *)
(* RfLongDelay, so the machine stays in WAITDETEND and sets no Command,    *)
(* except in the one iteration, if any, whose poll read RfDetected FALSE   *)
(* before that tick and which goes on to set Command and enter IGNORE.     *)
C29_LatchedPollsReload ==
    /\ [](latched => (RfDetState = DETEND /\ RfDetected))
    /\ [][(latched /\ pc = "confirm" /\ pc' # pc /\ RfDetConfirmSt = WAITDETEND) =>
             pc' = "wde_reload"]_vars
    /\ [][(latched /\ pc = "wde_reload" /\ pc' # pc) =>
             /\ RfLongDelay' = WAITEND_RF /\ RfDetConfirmSt' = WAITDETEND
             /\ Command' = Command /\ pc' = "trigger"]_vars
    /\ [][(latched /\ latched' /\ Command' /\ ~Command) => pc = "wde_cmd"]_vars

(* C29 witness: after the latching tick the loop polled WAITDETEND, read   *)
(* RfDetected TRUE and has just reloaded RfLongDelay                       *)
C29_Witness ==
    /\ latched /\ RfDetConfirmSt = WAITDETEND /\ RfDetState = DETEND
    /\ RfDetected /\ ~Command /\ pc = "trigger"
    /\ RfLongDelay = WAITEND_RF /\ ldTicks = 0

(* C30: in every PWM period throughout which Pwm1_dc holds one value d in  *)
(* 0 .. PWM1_MAXSTEP, P1.2 is driven HIGH on exactly the ticks whose       *)
(* incremented Pwm1_cn is in 1 .. d, which are d ticks, and LOW on every   *)
(* other tick, the tick that resets the counter included.                  *)
C30_HighOnDutyTicksPerPeriod ==
    /\ [][(Timer_A /\ pwmHigh >= 0) =>
             P1OUT_PWM1' = (Pwm1_cn' \in 1 .. Pwm1_dc)]_vars
    /\ [][(Timer_A /\ pwmHigh >= 0 /\ Pwm1_cn' = 0) =>
             (pwmHigh = Pwm1_dc /\ ~P1OUT_PWM1')]_vars

(* C30 witness: the last tick before the reset of a later period with a    *)
(* duty cycle strictly inside the range: the HIGH ticks number Pwm1_dc and *)
(* the pin is LOW                                                          *)
C30_Witness ==
    /\ pwmPeriod > 0 /\ Pwm1_cn = PWM1_MAXSTEP /\ ~P1OUT_PWM1
    /\ Pwm1_dc \in 1 .. (PWM1_MAXSTEP - 1) /\ pwmHigh = Pwm1_dc

====
